---- MODULE Spec2Model ----
(***************************************************************************)
(* Maximal-intervals minimizer for partial Boolean functions.              *)
(* Model of src/maximal_intervals_minimizer.py: PartialBooleanFunction,    *)
(* BooleanInterval and MaximalIntervalsMinimizer.  Bit-vectors are Python  *)
(* unbounded non-negative integers; & is computed digit by digit and the     *)
(* other bitwise operators from it.                                        *)
(***************************************************************************)
EXTENDS Integers, Sequences, FiniteSets, TLC

\* Largest number of variables n explored.
MaxN == 3
\* Longest caller-supplied index list given to the constructor.
MaxLen == 2
\* Number of minimize() calls made by the caller in one behaviour.
MaxRuns == 2

VARIABLES
    pc,                  \* position of the caller / of the running method
    n,                   \* PartialBooleanFunction.n
    ones,                \* constructor argument ones (index list)
    dcares,              \* constructor argument dcares (index list)
    func,                \* the constructed PartialBooleanFunction, or NoFunc
    self_iv,             \* receiver of a BooleanInterval method call
    other_iv,            \* argument `other` of is_subset_of
    arg_mask,            \* argument `mask` of covers_mask
    out,                 \* value returned by the BooleanInterval method
    queue,               \* find_all_max_intervals: queue (deque)
    visited,             \* find_all_max_intervals: visited (set)
    max_intervals,       \* find_all_max_intervals: max_intervals (list)
    expanded,            \* history: the intervals expand() was called on, in order
    all_intervals,       \* self.all_intervals
    essential_intervals, \* find_essential_intervals: essential_intervals
    covered_mask,        \* find_essential_intervals: covered_mask
    remaining_mask,      \* find_essential_intervals: remaining_mask
    ret,                 \* caller of find_all_max_intervals
    took_fallback,       \* minimize() called _greedy_cover
    result,              \* list returned by minimize()
    formula,             \* string returned by get_minimal_dnf()
    prev,                \* what the previous get_minimal_dnf() call returned
    runs                 \* number of get_minimal_dnf() calls started

vars == <<pc, n, ones, dcares, func, self_iv, other_iv, arg_mask, out,
          queue, visited, max_intervals, expanded, all_intervals,
          essential_intervals, covered_mask, remaining_mask, ret,
          took_fallback, result, formula, prev, runs>>

----------------------------------------------------------------------------
\* Python integer operators on non-negative integers.

\* A loop of the program is a recursive function or operator: one application
\* is one iteration, its arguments the loop's variables.

BitAndOf[a \in Nat, b \in Nat] ==
    IF a = 0 \/ b = 0 THEN 0
    ELSE (IF a % 2 = 1 /\ b % 2 = 1 THEN 1 ELSE 0) + 2 * BitAndOf[a \div 2, b \div 2]

\* a & b
BitAnd(a, b) == BitAndOf[a, b]

\* a | b = a + b - (a & b)
BitOr(a, b) == a + b - BitAnd(a, b)

\* a ^ b = a + b - 2 * (a & b)
BitXor(a, b) == a + b - 2 * BitAnd(a, b)

\* a & ~b = a - (a & b)
BitAndNot(a, b) == a - BitAnd(a, b)

LsbOf[x \in Nat] == IF x % 2 = 1 THEN 1 ELSE 2 * LsbOf[x \div 2]

\* x & -x, for x > 0
Lsb(x) == LsbOf[x]

BitLengthOf[x \in Nat] == IF x = 0 THEN 0 ELSE 1 + BitLengthOf[x \div 2]

\* x.bit_length()
BitLength(x) == BitLengthOf[x]

PopCountOf[x \in Nat] == IF x = 0 THEN 0 ELSE (x % 2) + PopCountOf[x \div 2]

\* bin(x).count('1')
PopCount(x) == PopCountOf[x]

\* 1 << k
Shl1(k) == 2 ^ k

\* x & (1 << p) is non-zero
TestBit(x, p) == (x \div Shl1(p)) % 2 = 1

----------------------------------------------------------------------------
\* PartialBooleanFunction

NoFunc == [raised |-> FALSE, n |-> 0, total_points |-> 0, ones_mask |-> 0,
           dcares_mask |-> 0, significant_mask |-> 0, zeros_mask |-> 0]

\* ListToMask with the range test written `0 <= val <= total_points`
RECURSIVE ListToMask_InclusiveBound(_, _, _)
ListToMask_InclusiveBound(list, total_points, mask) ==
    IF list = <<>> THEN mask
    ELSE LET val == Head(list)
         IN  ListToMask_InclusiveBound(Tail(list), total_points,
                        IF 0 <= val /\ val <= total_points
                        THEN mask + (IF TestBit(mask, val) THEN 0 ELSE Shl1(val))
                        ELSE mask)

\* the loops `for val in ones: if 0 <= val < total_points: mask |= 1 << val`
RECURSIVE ListToMask(_, _, _)
ListToMask(list, total_points, mask) ==
    IF list = <<>> THEN mask
    ELSE LET val == Head(list)
         IN  ListToMask(Tail(list), total_points,
                        IF 0 <= val /\ val < total_points
                        THEN BitOr(mask, Shl1(val)) ELSE mask)

\* PartialBooleanFunction.__init__ with the validation written against zeros_mask
PartialBooleanFunction_WrongValidation(nn, onesList, dcaresList) ==
    LET total_points     == Shl1(nn)
        ones_mask        == ListToMask(onesList, total_points, 0)
        dcares_mask      == ListToMask(dcaresList, total_points, 0)
        significant_mask == BitOr(ones_mask, dcares_mask)
        zeros_mask       == BitAndNot(Shl1(total_points) - 1, significant_mask)
    IN  IF BitAnd(ones_mask, zeros_mask) # 0
        THEN [raised |-> TRUE, n |-> 0, total_points |-> 0, ones_mask |-> 0,
              dcares_mask |-> 0, significant_mask |-> 0, zeros_mask |-> 0]
        ELSE [raised |-> FALSE, n |-> nn, total_points |-> total_points,
              ones_mask |-> ones_mask, dcares_mask |-> dcares_mask,
              significant_mask |-> significant_mask, zeros_mask |-> zeros_mask]

\* PartialBooleanFunction.__init__; raised = TRUE stands for the ValueError,
\* in which case no object exists.
PartialBooleanFunction(nn, onesList, dcaresList) ==
    LET total_points     == Shl1(nn)
        ones_mask        == ListToMask(onesList, total_points, 0)
        dcares_mask      == ListToMask(dcaresList, total_points, 0)
        significant_mask == BitOr(ones_mask, dcares_mask)
        zeros_mask       == BitAndNot(Shl1(total_points) - 1, significant_mask)
    IN  IF BitAnd(ones_mask, dcares_mask) # 0
        THEN [NoFunc EXCEPT !.raised = TRUE]
        ELSE [raised |-> FALSE, n |-> nn, total_points |-> total_points,
              ones_mask |-> ones_mask, dcares_mask |-> dcares_mask,
              significant_mask |-> significant_mask, zeros_mask |-> zeros_mask]

----------------------------------------------------------------------------
\* BooleanInterval

\* BooleanInterval.__init__
BooleanInterval(nn, mask, value) ==
    LET m == BitAnd(mask, Shl1(nn) - 1)
    IN  [n |-> nn, mask |-> m, value |-> BitAnd(value, m)]

NoInterval == [n |-> 0, mask |-> 0, value |-> 0]

\* the values a BooleanInterval object may take
Interval == [n : Nat, mask : Nat, value : Nat]

\* BooleanInterval.size
size(I) == Shl1(I.n - PopCount(I.mask))

\* BooleanInterval.__lt__
Lt(I, J) == size(I) > size(J)

\* BooleanInterval.covers_point
covers_point(I, point) == BitAnd(point, I.mask) = I.value

\* AssemblePoint without `temp_val >>= 1`
AssemblePoint_NoShift(point0, temp_free0, temp_val0, k0) ==
    LET Loop[point \in Nat, temp_free \in Nat, temp_val \in Nat, k \in Nat] ==
            IF k = 0 \/ temp_free = 0 THEN point
            ELSE LET lsb == Lsb(temp_free)
                 IN  Loop[IF temp_val % 2 = 1 THEN BitOr(point, lsb) ELSE point,
                          BitXor(temp_free, lsb), temp_val, k - 1]
    IN  Loop[point0, temp_free0, temp_val0, k0]

\* the inner loop `for _ in range(free_count)` that assembles one point
AssemblePoint(point0, temp_free0, temp_val0, k0) ==
    LET Loop[point \in Nat, temp_free \in Nat, temp_val \in Nat, k \in Nat] ==
            IF k = 0 \/ temp_free = 0 THEN point
            ELSE LET lsb == Lsb(temp_free)
                 IN  Loop[IF temp_val % 2 = 1 THEN BitOr(point, lsb) ELSE point,
                          BitXor(temp_free, lsb), temp_val \div 2, k - 1]
    IN  Loop[point0, temp_free0, temp_val0, k0]

\* the loop `for free_val in range(1 << free_count)` of covers_mask
CoversMaskLoop(I, mask, free_vars, free_count) ==
    LET Loop[free_val \in Nat, res \in Nat] ==
            IF free_val >= Shl1(free_count) THEN res
            ELSE LET point == AssemblePoint(I.value, free_vars, free_val, free_count)
                 IN  Loop[free_val + 1,
                          IF point < Shl1(I.n) /\ TestBit(mask, point)
                          THEN BitOr(res, Shl1(point)) ELSE res]
    IN  Loop[0, 0]

\* BooleanInterval.covers_mask
covers_mask(I, mask) ==
    IF I.mask = 0 THEN mask
    ELSE CoversMaskLoop(I, mask, BitXor(Shl1(I.n) - 1, I.mask),
                        I.n - PopCount(I.mask))

\* the loop `for free_val in range(1 << free_count)` of get_all_points_mask
AllPointsLoop(I, free_vars, free_count) ==
    LET Loop[free_val \in Nat, res \in Nat] ==
            IF free_val >= Shl1(free_count) THEN res
            ELSE LET point == AssemblePoint(I.value, free_vars, free_val, free_count)
                 IN  Loop[free_val + 1,
                          IF point < Shl1(I.n) THEN BitOr(res, Shl1(point)) ELSE res]
    IN  Loop[0, 0]

\* the body of BooleanInterval.get_all_points_mask
AllPointsOf(I) ==
    IF I.mask = 0 THEN Shl1(Shl1(I.n)) - 1
    ELSE AllPointsLoop(I, BitXor(Shl1(I.n) - 1, I.mask), I.n - PopCount(I.mask))

\* AllPointsOf tabulated once for every interval, so that a call is a lookup
AllPointsMemo ==
    [nn \in 1..MaxN |->
        [m \in 0 .. (Shl1(nn) - 1) |->
            [v \in 0 .. (Shl1(nn) - 1) |->
                AllPointsOf([n |-> nn, mask |-> m, value |-> v])]]]

\* BooleanInterval.get_all_points_mask
get_all_points_mask(I) == AllPointsMemo[I.n][I.mask][I.value]

\* is_subset_of without the comparison of the values
is_subset_of_MaskOnly(I, other) == BitAnd(I.mask, other.mask) = other.mask

\* BooleanInterval.is_subset_of
is_subset_of(I, other) ==
    /\ BitAnd(I.mask, other.mask) = other.mask
    /\ BitAnd(I.value, other.mask) = other.value

\* expand with the admissibility test applied to the current points
expand_TestsCurrentPoints(I, allowed_mask) ==
    LET current_points_mask == get_all_points_mask(I)
        Loop[vars_in_interval \in Nat, expansions \in Seq(Interval)] ==
            IF vars_in_interval = 0 THEN expansions
            ELSE LET var_bit      == Lsb(vars_in_interval)
                     new_mask     == BitXor(I.mask, var_bit)
                     new_value    == BitAnd(I.value, new_mask)
                     new_interval == BooleanInterval(I.n, new_mask, new_value)
                 IN  Loop[BitXor(vars_in_interval, var_bit),
                          IF BitAndNot(current_points_mask, allowed_mask) = 0
                          THEN Append(expansions, new_interval) ELSE expansions]
    IN  Loop[I.mask, <<>>]

\* expand that leaves its loop after the lowest variable of the interval
expand_FirstVariableOnly(I, allowed_mask) ==
    LET current_points_mask == get_all_points_mask(I)
        Loop[vars_in_interval \in Nat, expansions \in Seq(Interval)] ==
            IF vars_in_interval = 0 THEN expansions
            ELSE LET var_bit         == Lsb(vars_in_interval)
                     new_mask        == BitXor(I.mask, var_bit)
                     new_value       == BitAnd(I.value, new_mask)
                     new_interval    == BooleanInterval(I.n, new_mask, new_value)
                     new_points_mask == get_all_points_mask(new_interval)
                     new_points      == BitAndNot(new_points_mask, current_points_mask)
                 IN  Loop[0,
                          IF BitAndNot(new_points, allowed_mask) = 0
                          THEN Append(expansions, new_interval) ELSE expansions]
    IN  Loop[I.mask, <<>>]

\* BooleanInterval.expand
expand(I, allowed_mask) ==
    LET current_points_mask == get_all_points_mask(I)
        Loop[vars_in_interval \in Nat, expansions \in Seq(Interval)] ==
            IF vars_in_interval = 0 THEN expansions
            ELSE LET var_bit         == Lsb(vars_in_interval)
                     new_mask        == BitXor(I.mask, var_bit)
                     new_value       == BitAnd(I.value, new_mask)
                     new_interval    == BooleanInterval(I.n, new_mask, new_value)
                     new_points_mask == get_all_points_mask(new_interval)
                     new_points      == BitAndNot(new_points_mask, current_points_mask)
                 IN  Loop[BitXor(vars_in_interval, var_bit),
                          IF BitAndNot(new_points, allowed_mask) = 0
                          THEN Append(expansions, new_interval) ELSE expansions]
    IN  Loop[I.mask, <<>>]

----------------------------------------------------------------------------
\* MaximalIntervalsMinimizer

\* `x in list` for a Python list of intervals
InList(I, list) == \E i \in 1..Len(list) : list[i] = I

\* StartIntervals without the seed of the lowest significant point
StartIntervals_SkipsLowestPoint(nn, significant_mask) ==
    LET Loop[temp \in Nat, start_intervals \in Seq(Interval)] ==
            IF temp = 0 THEN start_intervals
            ELSE LET lsb       == Lsb(temp)
                     point     == BitLength(lsb) - 1
                     full_mask == Shl1(nn) - 1
                 IN  Loop[BitXor(temp, lsb),
                          Append(start_intervals, BooleanInterval(nn, full_mask, point))]
    IN  IF significant_mask = 0 THEN <<>>
        ELSE Loop[BitXor(significant_mask, Lsb(significant_mask)), <<>>]

\* the loop `while temp` that builds start_intervals
StartIntervals(nn, significant_mask) ==
    LET Loop[temp \in Nat, start_intervals \in Seq(Interval)] ==
            IF temp = 0 THEN start_intervals
            ELSE LET lsb       == Lsb(temp)
                     point     == BitLength(lsb) - 1
                     full_mask == Shl1(nn) - 1
                 IN  Loop[BitXor(temp, lsb),
                          Append(start_intervals, BooleanInterval(nn, full_mask, point))]
    IN  Loop[significant_mask, <<>>]

\* the tests `current in visited` and `exp not in visited`
IsVisited_Never(I, vis) == FALSE

IsVisited(I, vis) == I \in vis

\* CoversSomeOne written against dcares_mask
CoversSomeOne_WrongMask(I) == covers_mask(I, func.dcares_mask) # 0

\* the test `if current.covers_mask(self.func.ones_mask) != 0`
CoversSomeOne(I) == covers_mask(I, func.ones_mask) # 0

\* Subsumed without `i != j`
Subsumed_NoIndexTest(list, i, j) == is_subset_of(list[i], list[j])

\* the test `i != j and interval.is_subset_of(other)`
Subsumed(list, i, j) == i # j /\ is_subset_of(list[i], list[j])

\* the loop that builds unique_intervals
RemoveSubsets(list) ==
    LET keep(i) == ~ \E j \in 1..Len(list) : Subsumed(list, i, j)
        Loop[i \in Nat, unique_intervals \in Seq(Interval)] ==
            IF i > Len(list) THEN unique_intervals
            ELSE Loop[i + 1, IF keep(i) THEN Append(unique_intervals, list[i])
                             ELSE unique_intervals]
    IN  Loop[1, <<>>]

\* list.sort() with BooleanInterval.__lt__: a stable sort, larger size first
SortIntervals(list) ==
    LET Insert[sorted \in Seq(Interval), I \in Interval] ==
            IF sorted = <<>> THEN <<I>>
            ELSE IF Lt(I, sorted[Len(sorted)])
                 THEN Append(Insert[SubSeq(sorted, 1, Len(sorted) - 1), I],
                             sorted[Len(sorted)])
                 ELSE Append(sorted, I)
        Loop[k \in Nat, sorted \in Seq(Interval)] ==
            IF k > Len(list) THEN sorted
            ELSE Loop[k + 1, Insert[sorted, list[k]]]
    IN  Loop[1, <<>>]

\* coverage_map[point]: the intervals of self.all_intervals covering point
CoverageList(intervals, point) ==
    SelectSeq(intervals, LAMBDA I : TestBit(covers_mask(I, func.ones_mask), point))

\* EssentialLoop without the test `interval not in essential_intervals`
RECURSIVE EssentialLoop_NoMembershipTest(_, _, _, _)
EssentialLoop_NoMembershipTest(intervals, temp, ess, cov) ==
    IF temp = 0 THEN [essential_intervals |-> ess, covered_mask |-> cov]
    ELSE LET lsb   == Lsb(temp)
             point == BitLength(lsb) - 1
             cl    == CoverageList(intervals, point)
             take  == Len(cl) = 1
         IN  EssentialLoop_NoMembershipTest(intervals, BitXor(temp, lsb),
                           IF take THEN Append(ess, cl[1]) ELSE ess,
                           IF take THEN BitOr(cov, covers_mask(cl[1], func.ones_mask))
                           ELSE cov)

\* stage 1 of find_essential_intervals: `for point, intervals in coverage_map.items()`
RECURSIVE EssentialLoop(_, _, _, _)
EssentialLoop(intervals, temp, ess, cov) ==
    IF temp = 0 THEN [essential_intervals |-> ess, covered_mask |-> cov]
    ELSE LET lsb   == Lsb(temp)
             point == BitLength(lsb) - 1
             cl    == CoverageList(intervals, point)
             take  == Len(cl) = 1 /\ ~InList(cl[1], ess)
         IN  EssentialLoop(intervals, BitXor(temp, lsb),
                           IF take THEN Append(ess, cl[1]) ELSE ess,
                           IF take THEN BitOr(cov, covers_mask(cl[1], func.ones_mask))
                           ELSE cov)

\* Better written with >=
Better_OrEqual(coverage_count, best_coverage) == coverage_count >= best_coverage

\* the comparison `coverage_count > best_coverage`
Better(coverage_count, best_coverage) == coverage_count > best_coverage

\* the loop `for interval in ...` that picks best_interval; None is NoInterval
RECURSIVE BestLoop(_, _, _, _, _, _)
BestLoop(intervals, chosen, target, i, best_interval, best_coverage) ==
    IF i > Len(intervals)
    THEN [best_interval |-> best_interval, best_coverage |-> best_coverage]
    ELSE IF InList(intervals[i], chosen)
         THEN BestLoop(intervals, chosen, target, i + 1, best_interval, best_coverage)
         ELSE LET coverage_count == PopCount(covers_mask(intervals[i], target))
              IN  IF Better(coverage_count, best_coverage)
                  THEN BestLoop(intervals, chosen, target, i + 1,
                                intervals[i], coverage_count)
                  ELSE BestLoop(intervals, chosen, target, i + 1,
                                best_interval, best_coverage)

\* MaximalIntervalsMinimizer._greedy_cover
RECURSIVE GreedyCoverLoop(_, _, _)
GreedyCoverLoop(intervals, uncovered, res) ==
    IF uncovered = 0 THEN res
    ELSE LET b == BestLoop(intervals, res, uncovered, 1, NoInterval, 0)
         IN  IF b.best_interval # NoInterval /\ b.best_coverage > 0
             THEN GreedyCoverLoop(intervals,
                      BitAndNot(uncovered,
                                covers_mask(b.best_interval, func.ones_mask)),
                      Append(res, b.best_interval))
             ELSE res

_greedy_cover(intervals) == GreedyCoverLoop(intervals, func.ones_mask, <<>>)

\* BooleanInterval.__str__ ("~" stands for the negation sign)
RECURSIVE StrLoop(_, _, _)
StrLoop(I, i, terms) ==
    IF i < 0 THEN terms
    ELSE IF TestBit(I.mask, i)
         THEN LET var_name == "x" \o ToString(I.n - i)
              IN  StrLoop(I, i - 1,
                          Append(terms, IF TestBit(I.value, i) THEN var_name
                                        ELSE "~" \o var_name))
         ELSE StrLoop(I, i - 1, terms)

\* sep.join(list)
RECURSIVE Join(_, _)
Join(sep, list) ==
    IF list = <<>> THEN ""
    ELSE IF Len(list) = 1 THEN list[1]
    ELSE list[1] \o sep \o Join(sep, Tail(list))

Str(I) == IF I.mask = 0 THEN "1" ELSE Join(" & ", StrLoop(I, I.n - 1, <<>>))

\* the formatting part of get_minimal_dnf (" v " stands for the disjunction sign)
RECURSIVE DnfLoop(_, _)
DnfLoop(min_intervals, terms) ==
    IF min_intervals = <<>> THEN Join(" v ", terms)
    ELSE LET term == Str(Head(min_intervals))
         IN  IF term = "1" THEN "1"
             ELSE DnfLoop(Tail(min_intervals), Append(terms, "(" \o term \o ")"))

FormatDnf(min_intervals) ==
    IF min_intervals = <<>> THEN "0" ELSE DnfLoop(min_intervals, <<>>)

\* the loop of minimize that recomputes covered_mask from the selected intervals
RECURSIVE CoveredBy(_)
CoveredBy(list) ==
    IF list = <<>> THEN 0
    ELSE BitOr(covers_mask(Head(list), func.ones_mask), CoveredBy(Tail(list)))

----------------------------------------------------------------------------
\* Initial states

\* sorted(S) as a list
RECURSIVE Ascending(_)
Ascending(S) ==
    IF S = {} THEN <<>>
    ELSE LET m == CHOOSE x \in S : \A y \in S : x <= y
         IN  <<m>> \o Ascending(S \ {m})

Points(nn) == 0 .. (Shl1(nn) - 1)

\* the index lists a caller may pass: in range, one below and one above the range
IndexLists(nn) == UNION {[1..k -> (-1) .. Shl1(nn)] : k \in 0..MaxLen}

NoCall ==
    /\ self_iv = NoInterval /\ other_iv = NoInterval /\ arg_mask = 0 /\ out = 0

\* MaximalIntervalsMinimizer.__init__, and no method running
NoSearch ==
    /\ queue = <<>> /\ visited = {} /\ max_intervals = <<>> /\ expanded = <<>>
    /\ all_intervals = <<>> /\ essential_intervals = <<>>
    /\ covered_mask = 0 /\ remaining_mask = 0 /\ ret = "none"
    /\ took_fallback = FALSE /\ result = <<>> /\ formula = ""
    /\ prev = <<>> /\ runs = 0

\* a caller about to construct PartialBooleanFunction(n, ones, dcares)
InitCtor ==
    /\ pc = "new"
    /\ n \in 1..MaxN
    /\ ones \in IndexLists(n)
    /\ dcares \in IndexLists(n)
    /\ func = NoFunc
    /\ NoCall /\ NoSearch

\* a caller about to call a BooleanInterval method
InitInterval ==
    /\ n \in 1..MaxN
    /\ ones = <<>> /\ dcares = <<>> /\ func = NoFunc /\ out = 0
    /\ \E m \in 0 .. (Shl1(n + 1) - 1), v \in 0 .. (Shl1(n + 1) - 1) :
           self_iv = BooleanInterval(n, m, v)
    /\ \/ /\ pc = "call_covers_mask"
          /\ arg_mask \in 0 .. (Shl1(Shl1(n)) - 1)
          /\ other_iv = NoInterval
       \/ /\ pc = "call_is_subset_of"
          /\ arg_mask = 0
          /\ \E m \in 0 .. (Shl1(n + 1) - 1), v \in 0 .. (Shl1(n + 1) - 1) :
                 other_iv = BooleanInterval(n, m, v)
    /\ NoSearch

\* a valid function has been constructed and handed to a new minimizer
Init ==
    /\ pc = "idle"
    /\ n \in 1..MaxN
    /\ ones = <<>> /\ dcares = <<>>
    /\ \E S \in SUBSET Points(n) : \E D \in SUBSET (Points(n) \ S) :
           func = PartialBooleanFunction(n, Ascending(S), Ascending(D))
    /\ NoCall /\ NoSearch

----------------------------------------------------------------------------
\* Actions

unchangedFunc == UNCHANGED <<n, ones, dcares, func>>
unchangedCall == UNCHANGED <<self_iv, other_iv, arg_mask, out>>

\* PartialBooleanFunction(n, ones, dcares)
Construct ==
    /\ pc = "new"
    /\ func' = PartialBooleanFunction(n, ones, dcares)
    /\ pc' = IF func'.raised THEN "ValueError" ELSE "constructed"
    /\ UNCHANGED <<n, ones, dcares>>
    /\ unchangedCall
    /\ UNCHANGED <<queue, visited, max_intervals, expanded, all_intervals,
                   essential_intervals, covered_mask, remaining_mask, ret,
                   took_fallback, result, formula, prev, runs>>

\* self_iv.covers_mask(arg_mask)
CallCoversMask ==
    /\ pc = "call_covers_mask"
    /\ out' = covers_mask(self_iv, arg_mask)
    /\ pc' = "ret_covers_mask"
    /\ unchangedFunc
    /\ UNCHANGED <<self_iv, other_iv, arg_mask>>
    /\ UNCHANGED <<queue, visited, max_intervals, expanded, all_intervals,
                   essential_intervals, covered_mask, remaining_mask, ret,
                   took_fallback, result, formula, prev, runs>>

\* self_iv.is_subset_of(other_iv)
CallIsSubsetOf ==
    /\ pc = "call_is_subset_of"
    /\ out' = is_subset_of(self_iv, other_iv)
    /\ pc' = "ret_is_subset_of"
    /\ unchangedFunc
    /\ UNCHANGED <<self_iv, other_iv, arg_mask>>
    /\ UNCHANGED <<queue, visited, max_intervals, expanded, all_intervals,
                   essential_intervals, covered_mask, remaining_mask, ret,
                   took_fallback, result, formula, prev, runs>>

\* the head of find_all_max_intervals: seeds, queue, visited, max_intervals
StartSearch(caller) ==
    /\ queue' = StartIntervals(n, func.significant_mask)
    /\ visited' = {}
    /\ max_intervals' = <<>>
    /\ expanded' = <<>>
    /\ ret' = caller
    /\ pc' = "search"

\* the caller calls find_all_max_intervals() itself
CallFindAllMaxIntervals ==
    /\ pc = "idle"
    /\ StartSearch("caller")
    /\ UNCHANGED <<all_intervals, essential_intervals, covered_mask, remaining_mask,
                   took_fallback, result, formula, prev, runs>>
    /\ unchangedFunc /\ unchangedCall

\* get_minimal_dnf() -> minimize() -> find_all_max_intervals(), on the same
\* minimizer instance as the previous call if there was one
CallMinimize ==
    /\ pc \in {"idle", "done"}
    /\ runs < MaxRuns
    /\ runs' = runs + 1
    /\ prev' = IF pc = "done" THEN <<[result |-> result, formula |-> formula]>>
               ELSE prev
    /\ StartSearch("minimize")
    /\ result' = <<>> /\ formula' = "" /\ took_fallback' = FALSE
    /\ covered_mask' = 0 /\ remaining_mask' = 0
    /\ UNCHANGED <<all_intervals, essential_intervals>>
    /\ unchangedFunc /\ unchangedCall

\* the caller replaces the minimizer by MaximalIntervalsMinimizer(func)
NewMinimizer ==
    /\ pc = "done"
    /\ runs < MaxRuns
    /\ all_intervals # <<>> \/ essential_intervals # <<>>
    /\ all_intervals' = <<>>
    /\ essential_intervals' = <<>>
    /\ UNCHANGED <<pc, queue, visited, max_intervals, expanded, covered_mask,
                   remaining_mask, ret, took_fallback, result, formula, prev, runs>>
    /\ unchangedFunc /\ unchangedCall

\* one iteration of `while queue`
SearchStep ==
    /\ pc = "search"
    /\ queue # <<>>
    /\ LET cur == Head(queue)
       IN  IF IsVisited(cur, visited)
           THEN /\ queue' = Tail(queue)
                /\ UNCHANGED <<visited, max_intervals, expanded>>
           ELSE \E expansions \in {expand(cur, func.significant_mask)} :
                    /\ visited' = visited \cup {cur}
                    /\ expanded' = Append(expanded, cur)
                    /\ IF expansions # <<>>
                       THEN /\ queue' = Tail(queue) \o
                                   SelectSeq(expansions, LAMBDA e : ~IsVisited(e, visited'))
                            /\ UNCHANGED max_intervals
                       ELSE /\ queue' = Tail(queue)
                            /\ max_intervals' =
                                   IF CoversSomeOne(cur)
                                   THEN Append(max_intervals, cur)
                                   ELSE max_intervals
    /\ UNCHANGED <<pc, all_intervals, essential_intervals, covered_mask,
                   remaining_mask, ret, took_fallback, result, formula, prev, runs>>
    /\ unchangedFunc /\ unchangedCall

\* the tail of find_all_max_intervals: subset removal, sort, return
SearchFinish ==
    /\ pc = "search"
    /\ queue = <<>>
    /\ all_intervals' = SortIntervals(RemoveSubsets(max_intervals))
    /\ pc' = IF ret = "minimize" THEN "find_essential"
             ELSE IF ret = "find_essential" THEN "essential_pass"
             ELSE "found"
    /\ visited' = {} /\ max_intervals' = <<>> /\ ret' = "none"
    /\ UNCHANGED <<queue, expanded, essential_intervals, covered_mask,
                   remaining_mask, took_fallback, result, formula, prev, runs>>
    /\ unchangedFunc /\ unchangedCall

\* the head of find_essential_intervals: `if not self.all_intervals`
CallFindEssential ==
    /\ pc = "find_essential"
    /\ IF all_intervals = <<>>
       THEN StartSearch("find_essential")
       ELSE /\ pc' = "essential_pass"
            /\ UNCHANGED <<queue, visited, max_intervals, expanded, ret>>
    /\ UNCHANGED <<all_intervals, essential_intervals, covered_mask,
                   remaining_mask, took_fallback, result, formula, prev, runs>>
    /\ unchangedFunc /\ unchangedCall

\* coverage map and stage 1 of find_essential_intervals
EssentialPass ==
    /\ pc = "essential_pass"
    /\ LET e == EssentialLoop(all_intervals, func.ones_mask, <<>>, 0)
       IN  /\ essential_intervals' = e.essential_intervals
           /\ covered_mask' = e.covered_mask
           /\ remaining_mask' = BitAndNot(func.ones_mask, e.covered_mask)
    /\ pc' = "greedy"
    /\ UNCHANGED <<queue, visited, max_intervals, expanded, all_intervals, ret,
                   took_fallback, result, formula, prev, runs>>
    /\ unchangedFunc /\ unchangedCall

\* one iteration of `while remaining_mask`
GreedyStep ==
    /\ pc = "greedy"
    /\ remaining_mask # 0
    /\ LET b == BestLoop(all_intervals, essential_intervals, remaining_mask,
                         1, NoInterval, 0)
       IN  IF b.best_interval # NoInterval
           THEN /\ essential_intervals' = Append(essential_intervals, b.best_interval)
                /\ covered_mask' =
                       BitOr(covered_mask, covers_mask(b.best_interval, func.ones_mask))
                /\ remaining_mask' = BitAndNot(func.ones_mask, covered_mask')
                /\ UNCHANGED pc
           ELSE /\ pc' = "greedy_break"
                /\ UNCHANGED <<essential_intervals, covered_mask, remaining_mask>>
    /\ UNCHANGED <<queue, visited, max_intervals, expanded, all_intervals, ret,
                   took_fallback, result, formula, prev, runs>>
    /\ unchangedFunc /\ unchangedCall

\* find_essential_intervals returns; minimize checks the cover and returns;
\* get_minimal_dnf formats the result
FinishMinimize ==
    /\ \/ pc = "greedy" /\ remaining_mask = 0
       \/ pc = "greedy_break"
    /\ LET complete == CoveredBy(essential_intervals) = func.ones_mask
       IN  /\ took_fallback' = ~complete
           /\ result' = IF complete THEN essential_intervals
                        ELSE _greedy_cover(all_intervals)
    /\ formula' = FormatDnf(result')
    /\ pc' = "done"
    /\ covered_mask' = 0 /\ remaining_mask' = 0
    /\ UNCHANGED <<queue, visited, max_intervals, expanded, all_intervals,
                   essential_intervals, ret, prev, runs>>
    /\ unchangedFunc /\ unchangedCall

----------------------------------------------------------------------------
\* Specifications

Next ==
    \/ CallMinimize
    \/ NewMinimizer
    \/ SearchStep
    \/ SearchFinish
    \/ CallFindEssential
    \/ EssentialPass
    \/ GreedyStep
    \/ FinishMinimize

\* the minimizer, from any valid function
Spec == Init /\ [][Next]_vars

NextSearch == CallFindAllMaxIntervals \/ SearchStep \/ SearchFinish

\* find_all_max_intervals() called on a new minimizer; the call runs to its
\* return once started (single-threaded, synchronous, nothing to wait for)
SearchSpec == Init /\ [][NextSearch]_vars /\ WF_vars(NextSearch)

\* the constructor, from any caller-supplied index lists
SpecCtor == InitCtor /\ [][Construct]_vars

NextInterval == CallCoversMask \/ CallIsSubsetOf

\* the BooleanInterval methods, from any pair of intervals and any point set
SpecInterval == InitInterval /\ [][NextInterval]_vars

----------------------------------------------------------------------------
\* Properties of the constructor (SpecCtor)

Constructed == pc \in {"constructed", "ValueError"}

CommonIndex == \E i \in 1..Len(ones), j \in 1..Len(dcares) : ones[i] = dcares[j]

CommonIndexInRange ==
    \E i \in 1..Len(ones), j \in 1..Len(dcares) :
        ones[i] = dcares[j] /\ 0 <= ones[i] /\ ones[i] < Shl1(n)

\* C4 as stated: whenever the two index lists have an index in common, the
\* construction raises the validation error and produces no function object.
C4_RaisesOnAnyCommonIndex ==
    (Constructed /\ CommonIndex) => (pc = "ValueError" /\ func.raised)

\* C4 amended: the construction raises the validation error, and produces no
\* function object, exactly when the two lists have an index of [0, 2^n) in
\* common; an index outside that range common to both lists is dropped from both.
C4_RaisesIffCommonIndexInRange ==
    Constructed =>
        /\ (pc = "ValueError") <=> CommonIndexInRange
        /\ (pc = "ValueError") <=> func.raised
        /\ func.raised => func.n = 0

\* the construction raised on lists that also hold an out-of-range index
C4_Witness ==
    /\ pc = "ValueError"
    /\ CommonIndexInRange
    /\ \E i \in 1..Len(ones) : ones[i] < 0 \/ ones[i] >= Shl1(n)

\* C5: after a successful construction every point of 0..2^n-1 is in exactly one
\* of ones_mask, dcares_mask, zeros_mask, and none of the three has a bit set at
\* a position >= 2^n, whatever index lists (out-of-range indices included) were given.
C5_Partition ==
    pc = "constructed" =>
        /\ func.n = n /\ func.total_points = Shl1(n)
        /\ \A p \in Points(n) :
               Cardinality({k \in 1..3 :
                   TestBit(<<func.ones_mask, func.dcares_mask, func.zeros_mask>>[k], p)}) = 1
        /\ func.ones_mask   < Shl1(Shl1(n))
        /\ func.dcares_mask < Shl1(Shl1(n))
        /\ func.zeros_mask  < Shl1(Shl1(n))

\* a successful construction from lists holding out-of-range indices, with
\* ones, don't-cares and zeros all present
C5_Witness ==
    /\ pc = "constructed"
    /\ \E i \in 1..Len(ones) : ones[i] >= Shl1(n)
    /\ \E i \in 1..Len(dcares) : dcares[i] < 0
    /\ func.ones_mask # 0 /\ func.dcares_mask # 0 /\ func.zeros_mask # 0

----------------------------------------------------------------------------
\* Properties of the BooleanInterval methods (SpecInterval)

PointsCovered(I) == {p \in Points(I.n) : covers_point(I, p)}

\* C7: a.is_subset_of(b) is true exactly when every point of [0, 2^n) covered by
\* a is covered by b.
C7_SubsetIffContainment ==
    pc = "ret_is_subset_of" =>
        (out <=> (PointsCovered(self_iv) \subseteq PointsCovered(other_iv)))

\* is_subset_of answered true for two different intervals, the larger not universal
C7_Witness ==
    /\ pc = "ret_is_subset_of"
    /\ out = TRUE
    /\ self_iv # other_iv
    /\ other_iv.mask # 0

\* C8: bit p of I.covers_mask(M) is set exactly when bit p of M is set and
\* I.covers_point(p) holds; the result has no bit outside [0, 2^n); and I covers
\* size() = 2^(n - popcount(mask)) points.
C8_CoversMaskPointwise ==
    pc = "ret_covers_mask" =>
        /\ \A p \in Points(n) :
               TestBit(out, p) <=> (TestBit(arg_mask, p) /\ covers_point(self_iv, p))
        /\ out < Shl1(Shl1(n))
        /\ Cardinality(PointsCovered(self_iv)) = size(self_iv)
        /\ size(self_iv) = Shl1(n - PopCount(self_iv.mask))

\* covers_mask returned a proper non-empty part of M for an interval with both
\* fixed and free variables
C8_Witness ==
    /\ pc = "ret_covers_mask"
    /\ self_iv.mask # 0 /\ self_iv.mask # Shl1(n) - 1
    /\ out # 0 /\ out # arg_mask

----------------------------------------------------------------------------
\* Properties of the minimizer (Spec, SearchSpec)

Range(list) == {list[i] : i \in 1..Len(list)}

OnesPoints == {p \in Points(n) : TestBit(func.ones_mask, p)}

\* C1: when minimize() has returned, a point is covered (within ones_mask) by some
\* returned implicant exactly when it is a 1-point: the OR of covers_mask(ones_mask)
\* over the result is ones_mask.
C1_Completeness ==
    pc = "done" =>
        \A p \in Points(n) :
            TestBit(func.ones_mask, p) <=>
                \E i \in 1..Len(result) :
                    /\ TestBit(covers_mask(result[i], func.ones_mask), p)
                    /\ covers_point(result[i], p)

\* minimize() returned three or more implicants for a function with forced zeros
\* and don't-cares
C1_Witness ==
    /\ pc = "done"
    /\ Len(result) >= 3
    /\ func.zeros_mask # 0 /\ func.dcares_mask # 0

\* every implicant held by the search or by the cover selection
Placed ==
    Range(queue) \cup visited \cup Range(max_intervals) \cup Range(all_intervals)
        \cup Range(essential_intervals) \cup Range(result)

\* C2: no implicant held in the queue, the visited set, max_intervals, the
\* returned maximal-implicant list, the selection or the result covers a point of
\* zeros_mask, in any reachable state.
C2_Soundness == \A I \in Placed : covers_mask(I, func.zeros_mask) = 0

\* the search holds a visited generalization and a non-empty queue while the
\* function has forced zeros
C2_Witness ==
    /\ pc = "search"
    /\ func.zeros_mask # 0
    /\ queue # <<>>
    /\ \E I \in visited : size(I) >= 2
    /\ \E i \in 1..Len(queue) : size(queue[i]) >= 2

\* the interval obtained from I by dropping the literal of variable bit b
DropLiteral(I, b) ==
    [n |-> I.n, mask |-> I.mask - Shl1(b),
     value |-> IF TestBit(I.value, b) THEN I.value - Shl1(b) ELSE I.value]

\* C3: when find_all_max_intervals() has returned, expand(ones_mask | dcares_mask)
\* of every returned implicant is empty: dropping any one of its literals covers a
\* point outside ones_mask | dcares_mask.
C3_Maximality ==
    pc \in {"find_essential", "essential_pass"} =>
        \A i \in 1..Len(all_intervals) :
            LET I == all_intervals[i]
            IN  /\ expand(I, BitOr(func.ones_mask, func.dcares_mask)) = <<>>
                /\ \A b \in 0 .. (n - 1) :
                       TestBit(I.mask, b) =>
                           \E p \in Points(n) :
                               /\ covers_point(DropLiteral(I, b), p)
                               /\ ~TestBit(func.ones_mask, p)
                               /\ ~TestBit(func.dcares_mask, p)

\* find_all_max_intervals() returned several implicants, one of them with two
\* literals or more
C3_Witness ==
    /\ pc = "find_essential"
    /\ Len(all_intervals) >= 2
    /\ \E i \in 1..Len(all_intervals) :
           size(all_intervals[i]) >= 2 /\ PopCount(all_intervals[i].mask) >= 2

\* the number of still-uncovered 1-points that I covers
Gain(I) == Cardinality({p \in OnesPoints : TestBit(remaining_mask, p) /\ covers_point(I, p)})

\* positions of all_intervals not yet selected
Unselected == {j \in 1..Len(all_intervals) : all_intervals[j] \notin Range(essential_intervals)}

\* a greedy iteration selects the first unselected implicant of all_intervals
\* among those covering the most still-uncovered 1-points
FirstBestChosen ==
    (pc = "greedy" /\ pc' = "greedy" /\ essential_intervals' # essential_intervals) =>
        /\ Len(essential_intervals') = Len(essential_intervals) + 1
        /\ \E i \in Unselected :
               /\ all_intervals[i] = essential_intervals'[Len(essential_intervals')]
               /\ Gain(all_intervals[i]) > 0
               /\ \A j \in Unselected :
                      /\ Gain(all_intervals[j]) <= Gain(all_intervals[i])
                      /\ j < i => Gain(all_intervals[j]) < Gain(all_intervals[i])

\* C6: a second get_minimal_dnf() on the same function, on the same minimizer or
\* on a fresh one, returns the same ordered list and the same formula string as
\* the first; and each greedy choice is the first implicant of the size-sorted
\* list among those of largest coverage.
C6_Idempotence ==
    /\ [](pc = "done" /\ prev # <<>> =>
              /\ result = prev[1].result
              /\ formula = prev[1].formula)
    /\ [][FirstBestChosen]_vars

\* a second call has returned a result holding an implicant that no 1-point
\* forces (every 1-point it covers is covered by another maximal implicant),
\* while some maximal implicant was left out
C6_Witness ==
    /\ pc = "done" /\ prev # <<>>
    /\ Len(result) >= 2
    /\ Range(all_intervals) \ Range(result) # {}
    /\ \E i \in 1..Len(result) :
           \A p \in OnesPoints :
               covers_point(result[i], p) =>
                   \E J \in Range(all_intervals) : J # result[i] /\ covers_point(J, p)

\* C9: the greedy loop never meets uncovered 1-points that no unselected maximal
\* implicant covers, never leaves through its break branch, and minimize() never
\* calls _greedy_cover.
C9_NoIncompleteCover ==
    /\ pc # "greedy_break"
    /\ ~took_fallback
    /\ (pc = "greedy" /\ remaining_mask # 0) =>
           \E j \in Unselected : covers_mask(all_intervals[j], remaining_mask) # 0

\* the greedy loop is entered with uncovered 1-points after the essential pass
\* selected something
C9_Witness ==
    /\ pc = "greedy"
    /\ remaining_mask # 0
    /\ essential_intervals # <<>>

\* an iteration of the expansion loop enqueues only generalizations of the popped
\* implicant with exactly one literal fewer
EnqueuedDropOneLiteral ==
    (pc = "search" /\ pc' = "search") =>
        /\ Len(queue') >= Len(queue) - 1
        /\ SubSeq(queue', 1, Len(queue) - 1) = Tail(queue)
        /\ \A k \in Len(queue) .. Len(queue') :
               /\ PopCount(queue'[k].mask) = PopCount(Head(queue).mask) - 1
               /\ is_subset_of(Head(queue), queue'[k])

\* the search starts from implicants with all n literals
SeedsFullySpecified ==
    (pc # "search" /\ pc' = "search") =>
        \A k \in 1..Len(queue') : PopCount(queue'[k].mask) = n

\* C10: under the minimizer's run-to-completion scheduling the expansion loop
\* always ends; no implicant is expanded twice; every enqueued generalization has
\* one literal fewer than the implicant it comes from; seeds have n literals and
\* no implicant fewer than 0, so none is more than n steps from its seed.
C10_Termination ==
    /\ (pc = "search") ~> (pc # "search")
    /\ [](\A i, j \in 1..Len(expanded) : expanded[i] = expanded[j] => i = j)
    /\ [](\A I \in Range(queue) \cup visited :
              I.n = n /\ n - PopCount(I.mask) \in 0..n)
    /\ [][EnqueuedDropOneLiteral]_vars
    /\ [][SeedsFullySpecified]_vars

\* the search popped an implicant already visited, three generalization steps
\* away from the seeds
C10_Witness ==
    /\ pc = "search"
    /\ queue # <<>>
    /\ Head(queue) \in visited
    /\ n - PopCount(Head(queue).mask) >= 3

\* positions of all_intervals whose implicant covers point p
Covering(p) == {j \in 1..Len(all_intervals) : covers_point(all_intervals[j], p)}

\* positions of the returned list holding implicant I
Occurrences(I) == {i \in 1..Len(result) : result[i] = I}

\* C11: when minimize() has returned, every implicant of the maximal-implicant
\* list that is the only one covering some 1-point is in the returned list, at
\* exactly one position.
C11_EssentialSelected ==
    pc = "done" =>
        \A p \in OnesPoints :
            Cardinality(Covering(p)) = 1 =>
                \A j \in Covering(p) :
                    Cardinality(Occurrences(all_intervals[j])) = 1

\* minimize() returned two implicants or more, one of them the only cover of two
\* 1-points, while another 1-point is covered by several maximal implicants
C11_Witness ==
    /\ pc = "done"
    /\ Len(result) >= 2
    /\ \E p, q \in OnesPoints :
           /\ p # q
           /\ Cardinality(Covering(p)) = 1
           /\ Covering(q) = Covering(p)
    /\ \E p \in OnesPoints : Cardinality(Covering(p)) >= 2

\* every implicant (mask, value) over nn variables, value within mask
AllImplicants(nn) ==
    UNION {{[n |-> nn, mask |-> m, value |-> v] :
                v \in {w \in Points(nn) : BitAnd(w, m) = w}} : m \in Points(nn)}

\* I covers only points of ones_mask | dcares_mask
Consistent(I) ==
    \A p \in PointsCovered(I) : TestBit(func.ones_mask, p) \/ TestBit(func.dcares_mask, p)

\* I is consistent, covers a 1-point, and dropping any one of its literals covers
\* a point of zeros_mask
IsPrime(I) ==
    /\ Consistent(I)
    /\ \E p \in PointsCovered(I) : TestBit(func.ones_mask, p)
    /\ \A b \in 0 .. (I.n - 1) :
           TestBit(I.mask, b) =>
               \E p \in PointsCovered(DropLiteral(I, b)) : TestBit(func.zeros_mask, p)

\* C12: when find_all_max_intervals() has returned, the returned list holds
\* exactly the prime implicants of the function that cover a 1-point, each at one
\* position; and when the expansion loop has ended, no two recorded candidates
\* are in the is_subset_of relation, so the subset-removal pass keeps them all.
C12_AllPrimesOnce ==
    /\ pc \in {"find_essential", "essential_pass", "found"} =>
           /\ \A i, j \in 1..Len(all_intervals) :
                  all_intervals[i] = all_intervals[j] => i = j
           /\ Range(all_intervals) = {I \in AllImplicants(n) : IsPrime(I)}
    /\ (pc = "search" /\ queue = <<>>) =>
           /\ \A i, j \in 1..Len(max_intervals) :
                  i # j => ~is_subset_of(max_intervals[i], max_intervals[j])
           /\ RemoveSubsets(max_intervals) = max_intervals

\* find_all_max_intervals() returned three prime implicants or more, of different
\* sizes, for a function with don't-cares that also has a maximal consistent
\* implicant covering no 1-point
C12_Witness ==
    /\ pc = "find_essential"
    /\ Len(all_intervals) >= 3
    /\ size(all_intervals[1]) > size(all_intervals[Len(all_intervals)])
    /\ func.dcares_mask # 0
    /\ \E I \in AllImplicants(n) :
           /\ Consistent(I)
           /\ expand(I, func.significant_mask) = <<>>
           /\ covers_mask(I, func.ones_mask) = 0

====
